---- MODULE Spec2Model ----
(***************************************************************************)
(* Chunked upload and compression pipeline of compressPdf:                 *)
(*   app/routes/pdf.py            upload_chunk, compress_complete_file     *)
(*   app/services/pdf_service.py  PDFCompressor.compress_pdf_file          *)
(* The handlers are coroutines of one event loop: a handler runs without   *)
(* interleaving from one await to the next, so every action below is the   *)
(* code between two awaits.                                                *)
(***************************************************************************)
EXTENDS Integers, Sequences, FiniteSets, TLC

VARIABLES dirs, up, cc, svc, finalized

vars == <<dirs, up, cc, svc, finalized>>

\* dirs       the session directories under UPLOAD_DIR, by file name
\* up, cc     the upload_chunk and compress_complete_file requests in flight
\*            and the last answer of each
\* svc        the last call of compress_pdf_file
\* finalized  history: the file names whose last event is the return of a
\*            compress_complete_file call, no upload_chunk request for the
\*            name having arrived since

(***************************************************************************)
(* Bounds of the model.                                                    *)
(***************************************************************************)
\* chunk indices a client sends are -1 .. MaxIndex
MaxIndex == 2
\* totalChunks a client declares is 0 .. MaxTotal
MaxTotal == 3
\* at most MaxStored chunk files are kept in one session directory
MaxStored == 3
\* the engine's output is at most MaxOut bytes long
MaxOut == 2
\* length of the file handed to compress_pdf_file
MaxFileLen == 3
\* the valid sessions of SpecUploads, SpecFaults and SpecConcurrent have
\* MaxValid + 1 chunks, of indices 0 .. MaxValid
MaxValid == 1

\* a file name is the sequence of its components, split at "/"
FileNames == {<<"a.pdf">>}
\* the names of SpecNames: "a.pdf", "./a.pdf" and "b.pdf"
AllFileNames == {<<"a.pdf">>, <<".", "a.pdf">>, <<"b.pdf">>}
Indices == -1 .. MaxIndex
Totals == 0 .. MaxTotal
Bytes == {1, 2}
Contents == {<<>>, <<1>>}
\* the requests in flight: two of each handler at most
Uploads == {1, 2}
Compressions == {1, 2}

(***************************************************************************)
(* File names inside a session directory.  A name is the sequence of its   *)
(* characters, the prefix "chunk_" kept as one token.                      *)
(***************************************************************************)
DigitChars == <<"0", "1", "2", "3", "4", "5", "6", "7", "8", "9">>

RECURSIVE NatDigits(_)
NatDigits(n) ==
    IF n < 10 THEN <<DigitChars[n + 1]>>
    ELSE NatDigits(n \div 10) \o <<DigitChars[(n % 10) + 1]>>

\* f"{chunkIndex}"
FormatInt(i) == IF i < 0 THEN <<"-">> \o NatDigits(-i) ELSE NatDigits(i)

\* file_dir / f"chunk_{chunkIndex}"
chunk_path(chunkIndex) == <<"chunk_">> \o FormatInt(chunkIndex)

\* file_dir / "complete.pdf"
output_path == <<"complete.pdf">>

DigitVal(ch) == CHOOSE d \in 0 .. 9 : DigitChars[d + 1] = ch

RECURSIVE ParseNat(_)
ParseNat(s) ==
    IF s = <<>> THEN 0
    ELSE 10 * ParseNat(SubSeq(s, 1, Len(s) - 1)) + DigitVal(s[Len(s)])

\* int(text)
ParseInt(s) == IF Head(s) = "-" THEN 0 - ParseNat(Tail(s)) ELSE ParseNat(s)

\* key=lambda x: int(x.name.split('_')[1])
ChunkKey(name) == ParseInt(Tail(name))

\* code point of a character of a chunk name
CharCode(ch) == IF ch = "-" THEN 45 ELSE 48 + DigitVal(ch)

RECURSIVE LexLeq(_, _)
LexLeq(s, t) ==
    IF s = <<>> THEN TRUE
    ELSE IF t = <<>> THEN FALSE
    ELSE IF Head(s) = Head(t) THEN LexLeq(Tail(s), Tail(t))
    ELSE CharCode(Head(s)) < CharCode(Head(t))

(***************************************************************************)
(* The storage: UPLOAD_DIR holds one directory per file name.              *)
(***************************************************************************)
NoFiles == [n \in {} |-> <<>>]
NoDir == [exists |-> FALSE, files |-> NoFiles]

\* file_dir = UPLOAD_DIR / fileName, as the path below UPLOAD_DIR: pathlib
\* drops the "." components of a path when it joins
file_dir(fileName) == SelectSeq(fileName, LAMBDA part : part # ".")

\* the session directories the file names of the model lead to
Directories == {file_dir(f) : f \in AllFileNames}

\* @router.post("/compress/{fileName}"): a path parameter holds no "/"
PathParameters == {f \in AllFileNames : Len(f) = 1}

\* file_dir.glob("chunk_*")
GlobChunks(d) == {n \in DOMAIN d.files : Head(n) = "chunk_"}

\* file_dir.glob("*")
GlobAll(d) == DOMAIN d.files

\* mutant: the file opened in append mode
WriteBytesAppend(d, name, content) ==
    [d EXCEPT !.files = [n \in (DOMAIN d.files) \cup {name} |->
                            IF n # name THEN d.files[n]
                            ELSE IF name \in DOMAIN d.files
                                 THEN d.files[name] \o content ELSE content]]

\* mutant: a write that leaves an existing file as it is (first writer wins)
WriteBytesKeepsExisting(d, name, content) ==
    [d EXCEPT !.files = [n \in (DOMAIN d.files) \cup {name} |->
                            IF n \in DOMAIN d.files THEN d.files[n] ELSE content]]

\* path.write_bytes(content) and open(path, 'wb') ... write: create or truncate
WriteBytes(d, name, content) ==
    [d EXCEPT !.files = [n \in (DOMAIN d.files) \cup {name} |->
                            IF n = name THEN content ELSE d.files[n]]]

\* path.unlink() of every name in names
Unlink(d, names) ==
    [d EXCEPT !.files = [n \in (DOMAIN d.files) \ names |-> d.files[n]]]

(***************************************************************************)
(* upload_chunk                                                            *)
(***************************************************************************)
IdleUpload ==
    [pc |-> "idle", fileName |-> <<>>, chunkIndex |-> 0, totalChunks |-> 0,
     content |-> <<>>, status |-> 0, detail |-> "",
     chunksReceived |-> 0, progress |-> 0, chunkSize |-> 0]

\* `if not chunk`: chunk is the UploadFile object, which is always truthy
NotChunk(content) == FALSE

\* mutant: len(list(file_dir.glob("*")))
existing_files(d) == Cardinality(GlobAll(d))

\* existing_chunks = len(list(file_dir.glob("chunk_*")))
existing_chunks(d) == Cardinality(GlobChunks(d))

\* q, the nearest integer to num / den (den > 0), a tie going to the even one
RoundDiv(num, den) ==
    LET q == num \div den
        r == num % den
    IN  IF 2 * r < den THEN q
        ELSE IF 2 * r > den THEN q + 1
        ELSE IF q % 2 = 0 THEN q ELSE q + 1

\* f"{(existing_chunks / totalChunks) * 100:.1f}%", in tenths of a percent
FormatProgress(existing, totalChunks) == RoundDiv(existing * 1000, totalChunks)

\* f"{chunk_size / 1024:.2f}KB", in hundredths of a KB
FormatKB(chunk_size) == RoundDiv(chunk_size * 100, 1024)

\* lines 31-48, up to the await of chunk.read() at line 53
upload_chunk_begin(u, fileName, chunkIndex, totalChunks, content) ==
    /\ up[u].pc \in {"idle", "done"}
    /\ IF NotChunk(content)
       THEN /\ up' = [up EXCEPT ![u] =
                        [IdleUpload EXCEPT !.pc = "done", !.fileName = fileName,
                            !.chunkIndex = chunkIndex, !.totalChunks = totalChunks,
                            !.content = content, !.status = 500,
                            !.detail = "Nenhum arquivo recebido"]]
            /\ UNCHANGED dirs
       ELSE \* file_dir.mkdir(exist_ok=True)
            /\ dirs' = [dirs EXCEPT ![file_dir(fileName)].exists = TRUE]
            /\ up' = [up EXCEPT ![u] =
                        [IdleUpload EXCEPT !.pc = "reading", !.fileName = fileName,
                            !.chunkIndex = chunkIndex, !.totalChunks = totalChunks,
                            !.content = content]]
    /\ finalized' = finalized \ {fileName}
    /\ UNCHANGED <<cc, svc>>

\* lines 53-81 and the handler at 83-89
upload_chunk_write(u) ==
    LET r == up[u]
        d == dirs[file_dir(r.fileName)]
        written == WriteBytes(d, chunk_path(r.chunkIndex), r.content)
    IN  /\ r.pc = "reading"
        /\ IF ~d.exists
           THEN \* write_bytes raises FileNotFoundError
                /\ up' = [up EXCEPT ![u] = [r EXCEPT !.pc = "done", !.status = 500,
                                                !.detail = "write_bytes"]]
                /\ UNCHANGED dirs
           ELSE /\ dirs' = [dirs EXCEPT ![file_dir(r.fileName)] = written]
                /\ IF r.totalChunks = 0
                   THEN \* existing_chunks / totalChunks raises ZeroDivisionError
                        up' = [up EXCEPT ![u] = [r EXCEPT !.pc = "done", !.status = 500,
                                                    !.detail = "division by zero"]]
                   ELSE up' = [up EXCEPT ![u] =
                                [r EXCEPT !.pc = "done", !.status = 200,
                                    !.chunksReceived = existing_chunks(written),
                                    !.progress = FormatProgress(existing_chunks(written),
                                                                r.totalChunks),
                                    !.chunkSize =
                                        FormatKB(Len(written.files[chunk_path(r.chunkIndex)]))]]
        /\ UNCHANGED <<cc, svc, finalized>>

(***************************************************************************)
(* compress_complete_file                                                  *)
(***************************************************************************)
IdleCompress ==
    [pc |-> "idle", fileName |-> <<>>, total_size |-> 0, compressed_size |-> 0,
     ratio_num |-> 0, status |-> 0, body |-> <<>>, detail |-> "",
     cleanup_error |-> FALSE]

\* mutant: sorted(file_dir.glob("chunk_*")), the names in lexicographic order
RECURSIVE SortedChunksByName(_)
SortedChunksByName(names) ==
    IF names = {} THEN <<>>
    ELSE LET first == CHOOSE x \in names : \A y \in names : LexLeq(x, y)
         IN  <<first>> \o SortedChunksByName(names \ {first})

\* sorted(file_dir.glob("chunk_*"), key=lambda x: int(x.name.split('_')[1]))
RECURSIVE SortedChunks(_)
SortedChunks(names) ==
    IF names = {} THEN <<>>
    ELSE LET first == CHOOSE x \in names :
                        \A y \in names : ChunkKey(x) <= ChunkKey(y)
         IN  <<first>> \o SortedChunks(names \ {first})

\* the loop of lines 115-119: output_file.write(chunk_path.read_bytes())
RECURSIVE JoinChunks(_, _)
JoinChunks(d, chunks) ==
    IF chunks = <<>> THEN <<>>
    ELSE d.files[Head(chunks)] \o JoinChunks(d, Tail(chunks))

\* lines 114-117: total_size += chunk_path.stat().st_size
RECURSIVE SumSizes(_, _)
SumSizes(d, chunks) ==
    IF chunks = <<>> THEN 0
    ELSE Len(d.files[Head(chunks)]) + SumSizes(d, Tail(chunks))

total_size(d) == SumSizes(d, SortedChunks(GlobChunks(d)))

\* mutant: the engine called before the chunks are written to complete.pdf
AssembleNothing(d) == <<>>

\* lines 107-122: the bytes written to complete.pdf
Assemble(d) == JoinChunks(d, SortedChunks(GlobChunks(d)))

\* the engine behind `await compress_pdf(output_path, ...)`: it fails, or it
\* gives a non-empty document; it fails when its input file is missing
EngineOutputs == {[i \in 1 .. n |-> 0] : n \in 1 .. MaxOut}
compress_pdf(d) ==
    {[ok |-> FALSE, out |-> <<>>]} \cup
    (IF d.exists /\ output_path \in DOMAIN d.files
     THEN {[ok |-> TRUE, out |-> o] : o \in EngineOutputs}
     ELSE {})

\* mutant: a cleanup that removes complete.pdf and leaves the chunks
CleanupAfterSuccessLeavesChunks(d, faulty) ==
    {[dir |-> Unlink(d, {output_path}), raised |-> FALSE]}

\* mutant: a cleanup that removes the files and skips file_dir.rmdir()
CleanupAfterSuccessKeepsDir(d, faulty) ==
    {[dir |-> [exists |-> TRUE, files |-> NoFiles], raised |-> FALSE]}

\* lines 139-146: the outcomes of the cleanup after a compression.
\* output_path.unlink() raises when the file is gone; on a faulty disk any
\* unlink or the rmdir may raise OSError, after the removals before it
CleanupAfterSuccess(d, faulty) ==
    LET chunks == GlobChunks(d)
    IN  (IF output_path \in DOMAIN d.files
         THEN {[dir |-> NoDir, raised |-> FALSE]}
         ELSE {[dir |-> Unlink(d, chunks), raised |-> TRUE]})
        \cup (IF faulty
              THEN {[dir |-> Unlink(d, R), raised |-> TRUE] :
                        R \in {Q \in SUBSET GlobAll(d) :
                                output_path \in Q => chunks \subseteq Q}}
              ELSE {})

\* mutant: an error handler that removes nothing
CleanupAfterErrorSkipped(d, faulty) == {[dir |-> d, cleanup_error |-> FALSE]}

\* lines 162-172: the outcomes of the cleanup in the error handler
CleanupAfterError(d, faulty) ==
    IF ~d.exists THEN {[dir |-> d, cleanup_error |-> FALSE]}
    ELSE {[dir |-> NoDir, cleanup_error |-> FALSE]}
         \cup (IF faulty
               THEN {[dir |-> Unlink(d, R), cleanup_error |-> TRUE] :
                        R \in SUBSET GlobAll(d)}
               ELSE {})

\* lines 158-177: the error handler, entered with the exception `detail`
compress_failed(k, c, d, detail, faulty) ==
    \E e \in CleanupAfterError(d, faulty) :
        /\ dirs' = [dirs EXCEPT ![file_dir(c.fileName)] = e.dir]
        /\ cc' = [cc EXCEPT ![k] = [IdleCompress EXCEPT !.pc = "returned",
                                        !.fileName = c.fileName, !.status = 500,
                                        !.detail = detail,
                                        !.cleanup_error = e.cleanup_error]]
        /\ finalized' = finalized \cup {c.fileName}

\* lines 98-127, up to the await of compress_pdf
compress_complete_file_assemble(k, fileName, faulty) ==
    LET c == [IdleCompress EXCEPT !.fileName = fileName]
        d == dirs[file_dir(fileName)]
        opened == WriteBytes(d, output_path, <<>>)
    IN  /\ cc[k].pc \in {"idle", "returned"}
        /\ IF ~d.exists
           THEN \* open(output_path, 'wb') raises FileNotFoundError
                compress_failed(k, c, d, "open", faulty)
           ELSE /\ dirs' = [dirs EXCEPT ![file_dir(fileName)] =
                                WriteBytes(d, output_path, Assemble(opened))]
                /\ cc' = [cc EXCEPT ![k] = [c EXCEPT !.pc = "engine",
                                                !.total_size = total_size(opened)]]
                /\ UNCHANGED finalized
        /\ UNCHANGED <<up, svc>>

\* line 133: ((total_size - compressed_size) / total_size) * 100, as the
\* numerator of the fraction over total_size
compression_ratio(total, compressed) == (total - compressed) * 100

\* lines 127-156 after the await, and the error handler at 158-177
compress_complete_file_finish(k, faulty) ==
    LET c == cc[k]
        d == dirs[file_dir(c.fileName)]
    IN  /\ c.pc = "engine"
        /\ \E compressed \in compress_pdf(d) :
            IF ~compressed.ok THEN compress_failed(k, c, d, "engine", faulty)
            ELSE IF c.total_size = 0
            THEN \* (total_size - compressed_size) / total_size
                 compress_failed(k, c, d, "division by zero", faulty)
            ELSE \E s \in CleanupAfterSuccess(d, faulty) :
                    IF s.raised THEN compress_failed(k, c, s.dir, "cleanup", faulty)
                    ELSE /\ dirs' = [dirs EXCEPT ![file_dir(c.fileName)] = s.dir]
                         /\ cc' = [cc EXCEPT ![k] =
                                    [c EXCEPT !.pc = "returned", !.status = 200,
                                        !.compressed_size = Len(compressed.out),
                                        !.ratio_num = compression_ratio(c.total_size,
                                                            Len(compressed.out)),
                                        !.body = compressed.out]]
                         /\ finalized' = finalized \cup {c.fileName}
        /\ UNCHANGED <<up, svc>>

(***************************************************************************)
(* PDFCompressor.compress_pdf_file                                         *)
(***************************************************************************)
FileContents == UNION {[1 .. n -> Bytes] : n \in 0 .. MaxFileLen}
Diagnostics == {"gs: unrecoverable error", "gs: undefined in obj"}

\* what subprocess.run of the Ghostscript command leaves behind
GhostscriptRuns ==
    {[returncode |-> 1, has_output |-> FALSE, output |-> <<>>, stderr |-> e] :
        e \in Diagnostics}
    \cup {[returncode |-> 0, has_output |-> FALSE, output |-> <<>>, stderr |-> ""]}
    \cup {[returncode |-> 0, has_output |-> TRUE, output |-> [i \in 1 .. n |-> 0],
           stderr |-> ""] : n \in 0 .. MaxOut}

CompressionLevels == {"screen", "ebook", "printer", "prepress", "default"}
ImageResolutions == {72, 300}

\* _get_ghostscript_command: the settings the command line carries
ghostscript_command(compression_level, image_resolution) ==
    [PDFSETTINGS |-> compression_level, r |-> image_resolution,
     ColorImageResolution |-> image_resolution,
     GrayImageResolution |-> image_resolution,
     MonoImageResolution |-> image_resolution]

\* mutant: the ValueError of line 157 without the diagnostic output
EngineErrorWithoutStderr(stderr) == "Erro na compressao"

\* line 157: ValueError(f"Erro na compressao: {e.stderr}")
EngineError(stderr) == "Erro na compressao: " \o stderr

\* process is what the last subprocess.run left, runs the number of times the
\* call ran the engine
IdleService ==
    [pc |-> "idle", content |-> <<>>, command |-> ghostscript_command("screen", 72),
     process |-> [returncode |-> 0, has_output |-> FALSE, output |-> <<>>,
                  stderr |-> ""],
     runs |-> 0, status |-> "", detail |-> "",
     compressed_content |-> <<>>, original_size |-> 0, compressed_size |-> 0,
     ratio_num |-> 0, ratio_den |-> 1, renamed |-> FALSE]

\* mutant: the original is returned only when the output is larger
FallbackWhenLarger(compressed_size, original_size) == compressed_size > original_size

\* lines 134-144: the original is returned when the output is not smaller
Fallback(compressed_size, original_size) == compressed_size >= original_size

\* lines 82-160, the result or the ValueError it raises
CompressionResult(content, compression_level, image_resolution, gs) ==
    LET called == [IdleService EXCEPT !.pc = "returned", !.content = content,
                        !.command = ghostscript_command(compression_level,
                                                        image_resolution),
                        !.process = gs, !.runs = 1,
                        !.original_size = Len(content)]
        original_size == Len(content)
        compressed_size == Len(gs.output)
    IN  IF gs.returncode # 0
        THEN \* check=True raises CalledProcessError
             [called EXCEPT !.status = "ValueError",
                            !.detail = EngineError(gs.stderr)]
        ELSE IF ~gs.has_output
        THEN [called EXCEPT !.status = "ValueError",
                            !.detail = "Erro ao processar PDF: Falha ao gerar arquivo comprimido"]
        ELSE IF original_size = 0
        THEN \* compressed_size / original_size raises ZeroDivisionError
             [called EXCEPT !.status = "ValueError",
                            !.detail = "Erro ao processar PDF: division by zero"]
        ELSE IF Fallback(compressed_size, original_size)
        THEN [called EXCEPT !.status = "ok", !.compressed_content = content,
                            !.compressed_size = original_size,
                            !.ratio_num = 0, !.ratio_den = 1, !.renamed = FALSE]
        ELSE [called EXCEPT !.status = "ok", !.compressed_content = gs.output,
                            !.compressed_size = compressed_size,
                            !.ratio_num = (original_size - compressed_size) * 100,
                            !.ratio_den = original_size, !.renamed = TRUE]

compress_pdf_file(content, compression_level, image_resolution, gs) ==
    /\ svc' = CompressionResult(content, compression_level, image_resolution, gs)
    /\ UNCHANGED <<dirs, up, cc, finalized>>

(***************************************************************************)
(* Specifications                                                          *)
(***************************************************************************)
Init ==
    /\ dirs = [p \in Directories |-> NoDir]
    /\ up = [u \in Uploads |-> IdleUpload]
    /\ cc = [k \in Compressions |-> IdleCompress]
    /\ svc = IdleService
    /\ finalized = {}

\* the model keeps at most MaxStored chunk files in a directory
RoomFor(fileName, chunkIndex) ==
    \/ chunk_path(chunkIndex) \in DOMAIN dirs[file_dir(fileName)].files
    \/ existing_chunks(dirs[file_dir(fileName)]) < MaxStored

\* Spec: one upload_chunk and one compress_complete_file request at a time,
\* each interleaved with the other at its await; no removal fails
Next ==
    \/ \E f \in FileNames, i \in Indices, t \in Totals, c \in Contents :
        RoomFor(f, i) /\ upload_chunk_begin(1, f, i, t, c)
    \/ upload_chunk_write(1)
    \/ \E f \in FileNames : compress_complete_file_assemble(1, f, FALSE)
    \/ compress_complete_file_finish(1, FALSE)

Spec == Init /\ [][Next]_vars

\* SpecOrder: chunk indices of one and of two digits, uploaded in any order
OrderIndices == {2, 9, 10, 11}
OrderTotals == {12}
OrderContents == {<<1>>, <<2>>}

NextOrder ==
    \/ \E f \in FileNames, i \in OrderIndices, t \in OrderTotals, c \in OrderContents :
        upload_chunk_begin(1, f, i, t, c)
    \/ upload_chunk_write(1)
    \/ \E f \in FileNames : compress_complete_file_assemble(1, f, FALSE)
    \/ compress_complete_file_finish(1, FALSE)

SpecOrder == Init /\ [][NextOrder]_vars

\* the valid requests of a session of MaxValid + 1 chunks
ValidIndices == 0 .. MaxValid
ValidTotals == {MaxValid + 1}
ValidContents == {<<1>>, <<2>>}

\* SpecUploads: two upload_chunk requests in flight
NextUploads ==
    \/ \E u \in Uploads, f \in FileNames, i \in ValidIndices, t \in ValidTotals,
          c \in ValidContents :
        upload_chunk_begin(u, f, i, t, c)
    \/ \E u \in Uploads : upload_chunk_write(u)

SpecUploads == Init /\ [][NextUploads]_vars

\* SpecFaults: as Spec, on a disk where a removal may fail
NextFaults ==
    \/ \E f \in FileNames, i \in ValidIndices, t \in ValidTotals, c \in ValidContents :
        upload_chunk_begin(1, f, i, t, c)
    \/ upload_chunk_write(1)
    \/ \E f \in FileNames : compress_complete_file_assemble(1, f, TRUE)
    \/ compress_complete_file_finish(1, TRUE)

SpecFaults == Init /\ [][NextFaults]_vars

\* SpecConcurrent: two compress_complete_file requests in flight
NextConcurrent ==
    \/ \E f \in FileNames, i \in ValidIndices, t \in ValidTotals, c \in ValidContents :
        upload_chunk_begin(1, f, i, t, c)
    \/ upload_chunk_write(1)
    \/ \E k \in Compressions, f \in FileNames : compress_complete_file_assemble(k, f, FALSE)
    \/ \E k \in Compressions : compress_complete_file_finish(k, FALSE)

SpecConcurrent == Init /\ [][NextConcurrent]_vars

\* SpecNames: requests for several file names, one of them written with a
\* "." component
NamesContents == {<<1>>}

NextNames ==
    \/ \E f \in AllFileNames, i \in ValidIndices, t \in ValidTotals, c \in NamesContents :
        upload_chunk_begin(1, f, i, t, c)
    \/ upload_chunk_write(1)
    \/ \E f \in PathParameters : compress_complete_file_assemble(1, f, FALSE)
    \/ compress_complete_file_finish(1, FALSE)

SpecNames == Init /\ [][NextNames]_vars

\* SpecService: calls of compress_pdf_file
NextService ==
    \E content \in FileContents, level \in CompressionLevels,
       resolution \in ImageResolutions, gs \in GhostscriptRuns :
        compress_pdf_file(content, level, resolution, gs)

SpecService == Init /\ [][NextService]_vars

(***************************************************************************)
(* Properties                                                              *)
(***************************************************************************)
\* the chunk indices a directory holds, read back from the file names
StoredIndices(d) == {ChunkKey(n) : n \in GlobChunks(d)}

\* the content stored for each index
IndexMap(d) ==
    [i \in StoredIndices(d) |->
        d.files[CHOOSE n \in GlobChunks(d) : ChunkKey(n) = i]]

\* the contents g[lo], g[lo + 1], ..., g[hi] one after the other
RECURSIVE ConcatRange(_, _, _)
ConcatRange(g, lo, hi) ==
    IF lo > hi THEN <<>>
    ELSE (IF lo \in DOMAIN g THEN g[lo] ELSE <<>>) \o ConcatRange(g, lo + 1, hi)

\* the contents of g in ascending order of index
ConcatInOrder(g) ==
    IF DOMAIN g = {} THEN <<>>
    ELSE ConcatRange(g, CHOOSE i \in DOMAIN g : \A j \in DOMAIN g : i <= j,
                        CHOOSE i \in DOMAIN g : \A j \in DOMAIN g : i >= j)

\* upload_chunk u answers in this step
UploadReturns(u) == up[u].pc = "reading" /\ up'[u].pc = "done"

\* compress_complete_file k runs its first part in this step
AssembleStep(k) ==
    /\ cc[k].pc \in {"idle", "returned"}
    /\ cc'[k].pc \in {"engine", "returned"}
    /\ cc'[k] # cc[k]

\* compress_complete_file k answers after the engine in this step
FinishStep(k) == cc[k].pc = "engine" /\ cc'[k].pc = "returned"

\* compress_complete_file k answers in this step
CompressReturns(k) == cc'[k].pc = "returned" /\ cc'[k] # cc[k]

\* an upload_chunk request that breaks none of the constraints of storeChunk
ValidRequest(r) ==
    /\ r.totalChunks > 0
    /\ r.chunkIndex \in 0 .. (r.totalChunks - 1)
    /\ r.content # <<>>

\* an index below the totalChunks of an answered upload of fileName is not stored
Incomplete(fileName) ==
    \E u \in Uploads :
        /\ up[u].pc = "done" /\ up[u].status = 200 /\ up[u].fileName = fileName
        /\ \E i \in 0 .. (up[u].totalChunks - 1) :
            i \notin StoredIndices(dirs[file_dir(fileName)])

\* C1: the file compress_complete_file assembles is the concatenation of the
\* stored chunks in ascending numeric order of index, with no separators, and
\* total_size is its length.
C1_AssemblyInNumericOrder ==
    [][\A k \in Compressions :
        (AssembleStep(k) /\ cc'[k].pc = "engine")
            => LET f == cc'[k].fileName
                   expected == ConcatInOrder(IndexMap(dirs[file_dir(f)]))
               IN  /\ dirs'[file_dir(f)].files[output_path] = expected
                   /\ cc'[k].total_size = Len(expected)]_vars

\* C1 witness: chunks 2, 9 and 10 are stored and assembled as 2, 9, 10 (the
\* lexicographic order 10, 2, 9 would give <<1, 1, 2>>).
C1_Witness ==
    /\ cc[1].pc = "engine"
    /\ IndexMap(dirs[file_dir(<<"a.pdf">>)]) = (2 :> <<1>> @@ 9 :> <<2>> @@ 10 :> <<1>>)
    /\ dirs[file_dir(<<"a.pdf">>)].files[output_path] = <<1, 2, 1>>

\* C2: compress_complete_file fails, without assembling the chunks or invoking
\* the engine, whenever an index in [0, totalChunks) of the session is missing.
C2_IncompleteUploadRejected ==
    [][\A k \in Compressions :
        (AssembleStep(k) /\ Incomplete(cc'[k].fileName))
            => /\ cc'[k].pc = "returned" /\ cc'[k].status = 500
               /\ output_path \notin DOMAIN dirs'[file_dir(cc'[k].fileName)].files]_vars

C4_MutualExclusion ==
    \A j, k \in Compressions :
        (j # k /\ cc[j].pc = "engine" /\ cc[k].pc = "engine")
            => cc[j].fileName # cc[k].fileName

\* C5: when the engine's output is at least as long as the original, the result
\* of compress_complete_file is the original bytes, with compressed size equal
\* to the original size and ratio 0.
C5_FallbackOnFinalize ==
    [][\A k \in Compressions :
        (FinishStep(k) /\ cc'[k].status = 200
            /\ cc'[k].compressed_size >= cc'[k].total_size)
            => /\ cc'[k].body = dirs[file_dir(cc[k].fileName)].files[output_path]
               /\ Len(cc'[k].body) = cc'[k].total_size
               /\ cc'[k].ratio_num = 0]_vars

\* C6: an upload_chunk of an index that is already stored leaves one chunk for
\* that index, holding the new content, which is what the assembly uses; the
\* chunksReceived it reports is the number of chunks stored before it.
C6_ReuploadOverwrites ==
    [][\A u \in Uploads :
        (UploadReturns(u) /\ up'[u].status = 200
            /\ up[u].chunkIndex \in StoredIndices(dirs[file_dir(up[u].fileName)]))
            => LET f == up[u].fileName
                   i == up[u].chunkIndex
                   same == {n \in GlobChunks(dirs'[file_dir(f)]) : ChunkKey(n) = i}
               IN  /\ Cardinality(same) = 1
                   /\ \A n \in same : dirs'[file_dir(f)].files[n] = up[u].content
                   /\ StoredIndices(dirs'[file_dir(f)]) = StoredIndices(dirs[file_dir(f)])
                   /\ up'[u].chunksReceived = Cardinality(StoredIndices(dirs[file_dir(f)]))
                   /\ Assemble(dirs'[file_dir(f)]) =
                        ConcatInOrder([IndexMap(dirs[file_dir(f)]) EXCEPT ![i] = up[u].content])]_vars

\* C6 witness: two answered uploads of the same index with different bytes,
\* both reporting the same chunksReceived; the bytes stored are the second's.
C6_Witness ==
    /\ up[1].pc = "done" /\ up[1].status = 200
    /\ up[2].pc = "done" /\ up[2].status = 200
    /\ up[1].fileName = up[2].fileName /\ up[1].chunkIndex = up[2].chunkIndex
    /\ up[1].content # up[2].content
    /\ up[1].chunksReceived = up[2].chunksReceived
    /\ IndexMap(dirs[file_dir(up[2].fileName)])[up[2].chunkIndex] = up[2].content

\* C7: a successful upload_chunk returns as chunksReceived the number of
\* distinct indices stored after its write, its own among them, and as progress
\* chunksReceived / totalChunks * 100 to one decimal.
C7_ChunksReceivedAndProgress ==
    [][\A u \in Uploads :
        (UploadReturns(u) /\ up'[u].status = 200)
            => LET stored == StoredIndices(dirs'[file_dir(up[u].fileName)])
                   n == up'[u].chunksReceived
                   t == up'[u].totalChunks
                   diff == up'[u].progress * t - n * 1000
               IN  /\ up[u].chunkIndex \in stored
                   /\ n = Cardinality(stored)
                   /\ t = up[u].totalChunks
                   \* progress is in tenths: |progress / 10 - n / t * 100| <= 0.05
                   /\ 2 * diff <= t /\ -2 * diff <= t]_vars

\* C7 witness: the third of the chunks 0, 1, 2 of a session of three is
\* answered with chunksReceived 3 and progress 100.0%.
C7_Witness ==
    /\ up[1].pc = "done" /\ up[1].status = 200
    /\ up[1].totalChunks = 3 /\ up[1].chunksReceived = 3 /\ up[1].progress = 1000
    /\ StoredIndices(dirs[file_dir(up[1].fileName)]) = {0, 1, 2}

\* C8: an upload_chunk whose chunkIndex is negative or not below totalChunks is
\* rejected and stores nothing, so every stored index is in [0, totalChunks).
\* Stated for requests with totalChunks > 0 and a non-empty chunk, whose only
\* defect is the index.
C8_InvalidIndexRejected ==
    [][\A u \in Uploads :
        (UploadReturns(u) /\ up[u].totalChunks > 0 /\ up[u].content # <<>>
            /\ up[u].chunkIndex \notin 0 .. (up[u].totalChunks - 1))
            => /\ up'[u].status # 200
               /\ dirs'[file_dir(up[u].fileName)].files = dirs[file_dir(up[u].fileName)].files]_vars

\* C9: an upload_chunk whose content is empty fails and neither creates nor
\* overwrites a stored chunk.  Stated for requests whose index and totalChunks
\* are valid, whose only defect is the empty chunk.
C9_EmptyChunkRejected ==
    [][\A u \in Uploads :
        (UploadReturns(u) /\ up[u].content = <<>>
            /\ up[u].chunkIndex \in 0 .. (up[u].totalChunks - 1))
            => /\ up'[u].status # 200
               /\ dirs'[file_dir(up[u].fileName)].files = dirs[file_dir(up[u].fileName)].files]_vars

\* C10: a fault during cleanup never changes the outcome of
\* compress_complete_file: the error a call reports is never the cleanup's own
\* (a call whose compression succeeded returns its result, a failing call
\* reports its original error).
C10_CleanupNeverChangesOutcome ==
    \A k \in Compressions : cc[k].pc = "returned" => cc[k].detail # "cleanup"

\* a second compress_complete_file call for the file name of the call slot k
\* answered last, no upload_chunk request for the name having arrived since
SecondCall(k) ==
    /\ AssembleStep(k)
    /\ cc[k].pc = "returned"
    /\ cc'[k].fileName = cc[k].fileName
    /\ cc[k].fileName \in finalized

\* the call of slot k fails in this step without invoking the engine, and
\* nothing is stored for its file name after it
FailsWithoutEngine(k) ==
    /\ cc'[k].pc = "returned" /\ cc'[k].status = 500
    /\ dirs'[file_dir(cc'[k].fileName)] = NoDir

C12_EmptyResultFails ==
    (/\ svc.pc = "returned"
     /\ svc.process.returncode = 0
     /\ (~svc.process.has_output \/ svc.process.output = <<>>))
        => svc.status = "ValueError"

\* C13: every result of compress_pdf_file has compressed_size equal to the
\* length of compressed_content and at most original_size; its
\* compression_ratio is 0 exactly when the fallback was applied (the original
\* returned under its own name) and (1 - compressed_size/original_size) * 100
\* otherwise.
C13_ResultInvariants ==
    (svc.pc = "returned" /\ svc.status = "ok")
        => /\ svc.compressed_size = Len(svc.compressed_content)
           /\ svc.compressed_size <= svc.original_size
           /\ (svc.ratio_num = 0) <=> ~svc.renamed
           /\ ~svc.renamed => svc.compressed_content = svc.content
           /\ svc.renamed =>
                /\ svc.compressed_content = svc.process.output
                \* ratio_num / ratio_den = (1 - compressed_size / original_size) * 100
                /\ svc.ratio_num * svc.original_size =
                    (svc.original_size - svc.compressed_size) * 100 * svc.ratio_den

\* C13 witness: the engine's output is exactly as long as the original, and
\* the original is returned with ratio 0.
C13_Witness ==
    /\ svc.pc = "returned" /\ svc.status = "ok"
    /\ svc.original_size > 0
    /\ Len(svc.process.output) = svc.original_size
    /\ ~svc.renamed /\ svc.ratio_num = 0
    /\ svc.compressed_content = svc.content

\* the number of bytes the files `names` of d hold together
RECURSIVE BytesStored(_, _)
BytesStored(d, names) ==
    IF names = {} THEN 0
    ELSE LET n == CHOOSE x \in names : TRUE
         IN  Len(d.files[n]) + BytesStored(d, names \ {n})

C15_EngineFailureNoRetry ==
    svc.pc = "returned"
        => /\ svc.runs <= 1
           /\ svc.process.returncode # 0
                => /\ svc.status = "ValueError"
                   /\ svc.detail = "Erro na compressao: " \o svc.process.stderr
                   /\ svc.compressed_content = <<>>

\* C15 witness: the engine exited with 1 and a diagnostic, the call ran it
\* once and failed with that diagnostic.
C15_Witness ==
    /\ svc.pc = "returned" /\ svc.runs = 1
    /\ svc.process.returncode = 1
    /\ svc.process.stderr = "gs: undefined in obj"
    /\ svc.status = "ValueError"
    /\ svc.detail = "Erro na compressao: gs: undefined in obj"

\* C16: with several upload_chunk calls for one file name in flight, the
\* chunksReceived a call returns is the number of distinct indices stored at
\* the instant of its own write, its own index among them, and the content
\* stored for an index is that of the call that wrote it last: a write puts
\* the writer's bytes under its index and leaves every other index as it was.
C16_ConsistentSnapshotLastWriter ==
    [][\A u \in Uploads :
        (UploadReturns(u) /\ up'[u].status = 200)
            => LET f == up[u].fileName
                   i == up[u].chunkIndex
                   before == IndexMap(dirs[file_dir(f)])
                   after == IndexMap(dirs'[file_dir(f)])
               IN  /\ DOMAIN after = DOMAIN before \cup {i}
                   /\ up'[u].chunksReceived = Cardinality(DOMAIN after)
                   /\ after[i] = up[u].content
                   /\ \A j \in DOMAIN before \ {i} : after[j] = before[j]
                   /\ \A v \in Uploads \ {u} : up'[v] = up[v]]_vars

\* C16 witness: a call has returned chunksReceived 2 after overwriting an
\* index while another call for the same name and index, with other bytes, is
\* suspended in chunk.read().
C16_Witness ==
    /\ up[1].pc = "done" /\ up[1].status = 200 /\ up[1].chunksReceived = 2
    /\ up[2].pc = "reading" /\ up[2].fileName = up[1].fileName
    /\ up[2].chunkIndex = up[1].chunkIndex /\ up[2].content # up[1].content
    /\ IndexMap(dirs[file_dir(up[1].fileName)])[up[1].chunkIndex] = up[1].content

\* C17: a step of an upload_chunk or compress_complete_file call for a file
\* name leaves the session directory of every other file name, and so its
\* stored chunks and its received count, unchanged.
C17_DistinctNamesIndependent ==
    [][/\ \A u \in Uploads :
            up'[u] # up[u]
                => \A B \in AllFileNames \ {up'[u].fileName} :
                    dirs'[file_dir(B)] = dirs[file_dir(B)]
       /\ \A k \in Compressions :
            cc'[k] # cc[k]
                => \A B \in AllFileNames \ {cc'[k].fileName} :
                    dirs'[file_dir(B)] = dirs[file_dir(B)]]_vars

\* C18: a chunk stored for a file name while a compress_complete_file call
\* for it waits for the engine changes nothing of that call: the assembled
\* file and total_size are those of the chunks present when the assembly
\* started, the stored chunk leaves both as they are, the answer reports that
\* total_size, and no chunk, the late one included, is left after the call.
C18_LateChunkIgnoredAndRemoved ==
    [][\A k \in Compressions :
        /\ (AssembleStep(k) /\ cc'[k].pc = "engine")
            => LET f == cc'[k].fileName
                   present == ConcatInOrder(IndexMap(dirs[file_dir(f)]))
               IN  /\ dirs'[file_dir(f)].files[output_path] = present
                   /\ cc'[k].total_size = Len(present)
        /\ \A u \in Uploads :
            (/\ cc[k].pc = "engine" /\ UploadReturns(u)
             /\ file_dir(up[u].fileName) = file_dir(cc[k].fileName))
                => /\ cc'[k] = cc[k]
                   /\ dirs'[file_dir(cc[k].fileName)].files[output_path] =
                        dirs[file_dir(cc[k].fileName)].files[output_path]
        /\ FinishStep(k)
            => /\ cc'[k].total_size \in {0, cc[k].total_size}
               /\ cc'[k].status = 200 =>
                    /\ cc'[k].total_size = cc[k].total_size
                    /\ cc'[k].ratio_num =
                        (cc[k].total_size - Len(cc'[k].body)) * 100
               /\ dirs'[file_dir(cc[k].fileName)] = NoDir]_vars

\* C18 witness: the call assembled one chunk of one byte (total_size 1); a
\* second chunk was stored while it waited (chunksReceived 2); the call has
\* answered with the result for one byte and nothing is left.
C18_Witness ==
    /\ cc[1].pc = "returned" /\ cc[1].status = 200 /\ cc[1].total_size = 1
    /\ up[1].pc = "done" /\ up[1].status = 200 /\ up[1].chunksReceived = 2
    /\ up[1].fileName = cc[1].fileName
    /\ dirs[file_dir(cc[1].fileName)] = NoDir

\* C19: whenever upload_chunk answers with an error, the stored chunks of the
\* session and their contents are those of before the call, for every
\* chunkIndex and every totalChunks, 0 included.
C19_ErrorWritesNothing ==
    [][\A u \in Uploads :
        (UploadReturns(u) /\ up'[u].status # 200)
            => dirs'[file_dir(up[u].fileName)].files =
                dirs[file_dir(up[u].fileName)].files]_vars

\* C20: the chunksReceived a successful upload_chunk returns never exceeds the
\* totalChunks of that call, so that its progress is above 0% and at most
\* 100%.  Stated for the answers to requests that are valid in themselves.
C20_ChunksReceivedAtMostTotal ==
    \A u \in Uploads :
        (up[u].pc = "done" /\ up[u].status = 200 /\ ValidRequest(up[u]))
            => /\ up[u].chunksReceived <= up[u].totalChunks
               /\ up[u].progress > 0 /\ up[u].progress <= 1000

====
